---- MODULE Spec2Model ----
(***************************************************************************)
(* Deployment orchestrator of void-main-app.                               *)
(*                                                                         *)
(* Two programs cooperate:                                                 *)
(*   - DeploymentController (src/src/controllers/DeploymentController.ts): *)
(*     an Express router running on the single-threaded Node event loop.   *)
(*     Every handler below is one atomic action: the handlers contain no   *)
(*     await before their last statement, and startDeployment runs         *)
(*     synchronously up to its first await (the executeCommand promise).   *)
(*   - deploy-update.sh: the script the controller spawns with exec().     *)
(*     Each command group of the script is one action; the script is       *)
(*     interpreted by a shell that knows the ERR trap (bash, or the        *)
(*     busybox ash of current Alpine).  The script does not set errtrace,  *)
(*     so the ERR trap is not inherited by shell functions: a simple       *)
(*     command that fails inside deploy() ends the shell through set -e    *)
(*     without running handle_error, while a "return 1" of deploy() fails  *)
(*     the top-level command "deploy" and does run it.                     *)
(*                                                                         *)
(* Strings whose characters matter (signature headers, commit metadata)    *)
(* are sequences of one-character or chunk strings.  Snapshot names are    *)
(* the creation index of the snapshot (date +%Y%m%d-%H%M%S of attempts     *)
(* that start at least one second apart).                                  *)
(***************************************************************************)
EXTENDS Integers, Sequences, FiniteSets, TLC

\* ---------------------------------------------------------------- bounds
MaxAttempts == 1      \* deployment attempts that end per controller run
MaxPush     == 1      \* pushes reaching origin/main during the run
MaxPrior    == 6      \* snapshots already in BACKUP_DIR when the controller starts
MaxRepeat   == 2      \* attempts that end when deployments are repeated
MaxCli      == 1      \* runs of the script started from the command line

\* ------------------------------------------------------ program constants
KeepBackups == 5      \* tail -n +6 keeps the 5 newest entries

VARIABLES
    webhookSecret,          \* DeploymentController.webhookSecret
    deploymentInProgress,   \* DeploymentController.deploymentInProgress
    pending,                \* executeCommand promises not yet settled
    response,               \* response sent by the last step (NoResponse: none sent)
    pc,                     \* position of the deployment script ("none": no script)
    env,                    \* COMMIT_ID / COMMIT_MESSAGE / AUTHOR of the script
    exitStatus,             \* how the script ended, until the exec callback runs
    backups,                \* directories in BACKUP_DIR
    lastBackup,             \* content of .last-backup (0: file absent)
    deployInfo,             \* text of .deployment-info.json (NoFile: absent)
    tree,                   \* commit checked out in REPO_DIR
    dist,                   \* build output
    nodeModules,            \* dependency tree
    serviceRunning,         \* rc-service void-main status
    remoteHead,             \* head of origin/main on the remote
    created,                \* snapshots created so far (names the next one)
    attempt,                \* attempts started by this controller
    ended,                  \* attempts ended (exec callbacks run)
    trigger,                \* what started the current/last attempt
    steps,                  \* pipeline steps begun in the current/last attempt
    rollbacks,              \* runs of handle_error in the current/last attempt
    failedStep,             \* first fatal step of the current/last attempt
    snapshot,               \* snapshot made by the current/last attempt (0: none)
    restored,               \* snapshot restored by the current/last attempt
    outcome,                \* how the current/last attempt ended ("running" until then)
    budget,                 \* attempts this behaviour follows to their end
    lastGood,               \* the device as the last successful attempt left it
    cli,                    \* a run of deploy-update.sh started from the command line
    manifest,               \* package.json and package-lock.json in REPO_DIR
    notified,               \* pushes whose webhook GitHub has delivered
    node                    \* the controller's process and its AUTO_RESTART timer

ctlVars  == <<webhookSecret, deploymentInProgress, pending, budget>>
procVars == <<pc, env, exitStatus>>
fsVars   == <<backups, lastBackup, deployInfo, tree, manifest, dist, nodeModules, created>>
histVars == <<attempt, ended, trigger, steps, rollbacks, failedStep, snapshot, restored,
             outcome, lastGood>>
vars == <<webhookSecret, deploymentInProgress, pending, response, pc, env,
          exitStatus, backups, lastBackup, deployInfo, tree, dist, nodeModules,
          serviceRunning, remoteHead, created, attempt, ended, trigger, steps,
          rollbacks, failedStep, snapshot, restored, outcome, budget, lastGood, cli,
          manifest, notified, node>>

\* What a deployment attempt can change (everything but the request log).
deployState == <<deploymentInProgress, pending, pc, env, exitStatus, backups,
                 lastBackup, deployInfo, tree, manifest, dist, nodeModules, serviceRunning,
                 created, attempt, ended, trigger, steps, rollbacks, failedStep,
                 snapshot, restored, outcome, lastGood>>

\* ------------------------------------------------------------ strings
NoHeader == <<"undefined">>   \* req.headers[...] when the header is absent
NoFile   == [exists |-> FALSE]  \* a file that does not exist

Secret == <<"s", "3">>    \* the configured GITHUB_WEBHOOK_SECRET
Secrets == {<<>>, Secret}

MainRef    == "refs/heads/main"
FeatureRef == "refs/heads/feature-x"
Refs == {MainRef, FeatureRef}

Quote == "\""
\* head_commit objects of push payloads: id, message, author.name
Metas == {
    [id |-> <<"abc123">>, message |-> <<"fix sensor">>,           author |-> <<"ann">>],
    [id |-> <<"def456">>, message |-> <<"Revert ", Quote, "x", Quote>>, author |-> <<"bob">>] }

\* the commits of origin/main, oldest first: the n-th push makes CommitOf(n)
\* the head, and GitHub announces it with this head_commit
CommitOf(n) ==
    IF n = 0 THEN [id |-> <<"abc123">>, message |-> <<"fix sensor">>, author |-> <<"ann">>]
    ELSE IF n = 1 THEN [id |-> <<"def456">>, message |-> <<"Revert ", Quote, "x", Quote>>,
                        author |-> <<"bob">>]
    ELSE [id |-> <<"0ddba11">>, message |-> <<"bump">>, author |-> <<"ann">>]

\* a payload without head_commit (the member is undefined)
NoCommit == [id |-> <<"undefined">>, message |-> <<"undefined">>, author |-> <<"undefined">>]

\* req.body of a webhook request, as parsed by the JSON body parser
Bodies == [ref : Refs, head_commit : Metas \cup {NoCommit}]

\* The bytes on the wire: a JSON text of an object, compact or with
\* insignificant whitespace.  JSON.parse drops the whitespace.
RawBodies == [obj : Bodies, ws : BOOLEAN]

JsonParse(text) == text.obj

JsonStringify(obj) == [obj |-> obj, ws |-> FALSE]

\* ------------------------------------------------- signature verification
HexDigits == <<"0", "5", "a", "f">>

RefCode(ref) == IF ref = MainRef THEN 1 ELSE 2

MetaCode(hc) == IF hc = NoCommit THEN 0 ELSE 1 + Len(hc.message)

TextCode(text) ==
    RefCode(text.obj.ref) + 2 * MetaCode(text.obj.head_commit) + (IF text.ws THEN 7 ELSE 0)

KeyCode(key) == 5 * Len(key) + 1

\* crypto.createHmac('sha256', key).update(text).digest('hex'), toy-sized
HmacHex(key, text) ==
    LET h == KeyCode(key) * TextCode(text) + KeyCode(key)
    IN  <<HexDigits[(h % 4) + 1], HexDigits[((h \div 4) % 4) + 1]>>

SigPrefix == <<"s", "h", "a", "2", "5", "6", "=">>

ExpectedSignature(key, text) == SigPrefix \o HmacHex(key, text)

\* verifySignature: "ok"/"reject" for the boolean, "throw" when Buffer.from
\* or timingSafeEqual throws (absent header, byte lengths differ).
VerifySignatureFalseOnly(secret, payload, signature) ==
    IF secret = <<>> THEN "ok"
    ELSE IF signature = NoHeader THEN "throw"
    ELSE IF Len(signature) # Len(ExpectedSignature(secret, payload)) THEN "throw"
    ELSE IF SubSeq(signature, 1, Len(SigPrefix)) = SigPrefix THEN "ok"
    ELSE "reject"

VerifySignature(secret, payload, signature) ==
    IF secret = <<>> THEN "ok"
    ELSE IF signature = NoHeader THEN "throw"
    ELSE IF Len(signature) # Len(ExpectedSignature(secret, payload)) THEN "throw"
    ELSE IF signature = ExpectedSignature(secret, payload) THEN "ok"
    ELSE "reject"

\* ------------------------------------------------------------- requests
\* One character of a header changed (the smallest tampering).
FlipChar(c) == IF c = "0" THEN "5" ELSE "0"

Flip(sig, i) == [sig EXCEPT ![i] = FlipChar(sig[i])]

\* Signature headers a sender may put on the bytes `raw`: the digest of the
\* wire bytes or of their compact form under the secret, any one-character
\* change of the latter, a shortened or lengthened header, or no header.
Signatures(raw) ==
    LET honest == { ExpectedSignature(Secret, t) :
                        t \in {raw, JsonStringify(JsonParse(raw))} }
    IN  honest
        \cup { Flip(ExpectedSignature(Secret, JsonStringify(JsonParse(raw))), i) :
                   i \in 1..(Len(SigPrefix) + 2) }
        \cup { SubSeq(s, 1, Len(s) - 1) : s \in honest }
        \cup { s \o <<"0">> : s \in honest }
        \cup { NoHeader }

\* Every body with a header that is signed or absent; the tampered, short
\* and long headers on one compact push to main.
PlainPush == [obj |-> [ref |-> MainRef,
                       head_commit |-> [id |-> <<"abc123">>, message |-> <<"fix sensor">>,
                                        author |-> <<"ann">>]],
              ws |-> FALSE]

WebhookRequests ==
    UNION { { [raw |-> raw, sig |-> sg] :
                sg \in IF raw = PlainPush THEN Signatures(raw)
                       ELSE { ExpectedSignature(Secret, raw), NoHeader } } :
            raw \in { r \in RawBodies : r.ws => r.obj = PlainPush.obj } }
    \cup { [raw |-> [PlainPush EXCEPT !.ws = TRUE],
            sig |-> ExpectedSignature(Secret, PlainPush)] }

Response(status, msg) == [status |-> status, msg |-> msg]

NoResponse == Response(0, "")

\* -------------------------------------------------------------- files
Absent == -1                                  \* a directory that does not exist
Built(commit, ok) == [src |-> commit, valid |-> ok]

\* package.json and package-lock.json as a commit has them, and a place where
\* neither has been copied yet
CommitManifest(commit) == [pkg |-> commit, lock |-> commit]

NoManifest == [pkg |-> Absent, lock |-> Absent]

Snapshot(id, d, n, m, whole) ==
    [id |-> id, dist |-> d, nodeModules |-> n, manifest |-> m, complete |-> whole]

\* ls -1t | tail -n +6: the entries after the 5 newest
Newer(b, dir) == { c \in dir : c.id > b.id }

ToPruneKeepOldest(dir) == { b \in dir : Cardinality({ c \in dir : c.id < b.id }) >= KeepBackups }

ToPrune(dir) == { b \in dir : Cardinality(Newer(b, dir)) >= KeepBackups }

\* The heredoc of deploy()/handle_error(): the variables are expanded into
\* the JSON text as they are, nothing is escaped.
EnvOr(v) == IF v = <<>> THEN <<"unknown">> ELSE v

InfoText(e, ok) ==
    [exists |-> TRUE, commit |-> EnvOr(e.COMMIT_ID), message |-> EnvOr(e.COMMIT_MESSAGE),
     author |-> EnvOr(e.AUTHOR), branch |-> <<"main">>, success |-> ok,
     error |-> IF ok THEN <<>> ELSE <<"Deployment failed and was rolled back">>]

\* A JSON string literal ends at the first unescaped quote.
BreaksJson(s) == \E i \in 1..Len(s) : s[i] \in {Quote, "\\", "\n"}

NullRecord == [parsed |-> FALSE]

\* getLastDeploymentInfo: JSON.parse of the file, null when the file is
\* absent or is not JSON.
GetLastDeploymentInfo(file) ==
    IF ~file.exists THEN NullRecord
    ELSE IF BreaksJson(file.commit) \/ BreaksJson(file.message) \/ BreaksJson(file.author)
         THEN NullRecord
    ELSE [parsed |-> TRUE, commit |-> file.commit, message |-> file.message,
          author |-> file.author, branch |-> file.branch, success |-> file.success,
          error |-> file.error]

\* ------------------------------------------------------------ controller
ManualTrigger == [kind |-> "manual", head_commit |-> NoCommit]

WebhookTrigger(body) == [kind |-> "webhook", head_commit |-> body.head_commit]

\* a || b on strings: the empty string is falsy
OrElse(a, b) == IF a = <<>> THEN b ELSE a

\* the environment startDeployment hands to the script
ScriptEnv(trig) ==
    IF trig.kind = "webhook"
    THEN [COMMIT_ID      |-> OrElse(trig.head_commit.id, <<"manual">>),
          COMMIT_MESSAGE |-> OrElse(trig.head_commit.message, <<"Manual deployment">>),
          AUTHOR         |-> OrElse(trig.head_commit.author, <<"Manual">>)]
    ELSE [COMMIT_ID |-> <<"manual">>, COMMIT_MESSAGE |-> <<"Manual deployment">>,
          AUTHOR |-> <<"Manual">>]

NoEnv == [COMMIT_ID |-> <<>>, COMMIT_MESSAGE |-> <<>>, AUTHOR |-> <<>>]

\* startDeployment up to its await: the flag is set and the script spawned.
StartDeployment(trig) ==
    /\ node.alive
    /\ ended < budget
    /\ deploymentInProgress' = TRUE
    /\ pending' = pending + 1
    /\ pc' = "spawned"
    /\ env' = ScriptEnv(trig)
    /\ exitStatus' = "none"
    /\ attempt' = attempt + 1
    /\ trigger' = trig
    /\ steps' = <<>>
    /\ rollbacks' = 0
    /\ failedStep' = "none"
    /\ snapshot' = 0
    /\ restored' = 0
    /\ outcome' = "running"
    /\ UNCHANGED <<webhookSecret, ended, backups, lastBackup, deployInfo, tree, dist, nodeModules,
                   serviceRunning, remoteHead, created, budget, lastGood, cli, manifest, node>>

\* A handler that answers without touching the deployment.
Answer(res) ==
    /\ node.alive
    /\ response' = res
    /\ UNCHANGED <<webhookSecret, deployState, remoteHead, budget, cli, node>>

Busy == Response(429, "Deployment already in progress")

HandleWebhookNoBusyCheck(req) ==
    LET body    == JsonParse(req.raw)
        verdict == VerifySignature(webhookSecret, JsonStringify(body), req.sig)
    IN  IF verdict = "throw" THEN Answer(Response(500, "Internal server error"))
        ELSE IF verdict = "reject" THEN Answer(Response(401, "Invalid signature"))
        ELSE IF body.ref # MainRef THEN Answer(Response(200, "Ignored - not main branch"))
        ELSE IF body.head_commit = NoCommit
             THEN Answer(Response(500, "Internal server error"))
        ELSE /\ StartDeployment(WebhookTrigger(body))
             /\ response' = Response(200, "Deployment started")

HandleWebhookNoBranchCheck(req) ==
    LET body    == JsonParse(req.raw)
        verdict == VerifySignature(webhookSecret, JsonStringify(body), req.sig)
    IN  IF verdict = "throw" THEN Answer(Response(500, "Internal server error"))
        ELSE IF verdict = "reject" THEN Answer(Response(401, "Invalid signature"))
        ELSE IF deploymentInProgress THEN Answer(Busy)
        ELSE IF body.head_commit = NoCommit
             THEN Answer(Response(500, "Internal server error"))
        ELSE /\ StartDeployment(WebhookTrigger(body))
             /\ response' = Response(200, "Deployment started")

HandleWebhookBusyFirst(req) ==
    LET body    == JsonParse(req.raw)
        verdict == VerifySignature(webhookSecret, JsonStringify(body), req.sig)
    IN  IF verdict = "throw" THEN Answer(Response(500, "Internal server error"))
        ELSE IF verdict = "reject" THEN Answer(Response(401, "Invalid signature"))
        ELSE IF deploymentInProgress THEN Answer(Busy)
        ELSE IF body.ref # MainRef THEN Answer(Response(200, "Ignored - not main branch"))
        ELSE IF body.head_commit = NoCommit
             THEN Answer(Response(500, "Internal server error"))
        ELSE /\ StartDeployment(WebhookTrigger(body))
             /\ response' = Response(200, "Deployment started")

\* POST /webhook
HandleWebhook(req) ==
    LET body    == JsonParse(req.raw)
        verdict == VerifySignature(webhookSecret, JsonStringify(body), req.sig)
    IN  IF verdict = "throw" THEN Answer(Response(500, "Internal server error"))
        ELSE IF verdict = "reject" THEN Answer(Response(401, "Invalid signature"))
        ELSE IF body.ref # MainRef THEN Answer(Response(200, "Ignored - not main branch"))
        ELSE IF deploymentInProgress THEN Answer(Busy)
        ELSE IF body.head_commit = NoCommit
             THEN Answer(Response(500, "Internal server error"))
        ELSE /\ StartDeployment(WebhookTrigger(body))
             /\ response' = Response(200, "Deployment started")

\* Authorization headers of requests to the manual endpoint: none, a token
\* the auth controller signed, a token it did not sign.
ValidToken == "jwt-signed"
Authorizations == {NoHeader, <<"Bearer ", ValidToken>>, <<"Bearer ", "jwt-forged">>}

ManualRequests == [authorization : Authorizations]

\* authenticateToken of the auth controller: the header without "Bearer ",
\* verified with the JWT secret.
AuthenticateToken(req) ==
    IF req.authorization = NoHeader THEN FALSE
    ELSE req.authorization[1] = "Bearer " /\ req.authorization[2] = ValidToken

ManualDeployNoCheck(req) ==
    /\ StartDeployment(ManualTrigger)
    /\ response' = Response(200, "Manual deployment started")

\* POST /deploy.  The router is mounted at /api/deploy with no middleware in
\* front of it and the handler never reads req: the Authorization header
\* plays no part.
ManualDeploy(req) ==
    IF deploymentInProgress THEN Answer(Busy)
    ELSE /\ StartDeployment(ManualTrigger)
         /\ response' = Response(200, "Manual deployment started")

\* GET /status
StatusResponse ==
    [status |-> 200, msg |-> "status",
     deploymentInProgress |-> deploymentInProgress,
     lastDeployment |-> GetLastDeploymentInfo(deployInfo),
     webhookConfigured |-> (webhookSecret # <<>>)]

GetDeploymentStatusAlwaysConfigured ==
    /\ response' = [StatusResponse EXCEPT !.webhookConfigured = TRUE]
    /\ UNCHANGED <<webhookSecret, deployState, remoteHead, budget, cli, node>>

GetDeploymentStatus == Answer(StatusResponse)

\* GET /logs: the last 100 lines of logs/deployment.log, a file this model
\* does not follow; the handler only reads.
GetDeploymentLogs == Answer(Response(200, "logs"))

\* What a later deployment of the same remote head is compared with.
GoodState == [set |-> TRUE, tree |-> tree, dist |-> dist, service |-> serviceRunning,
              record |-> GetLastDeploymentInfo(deployInfo)]

NoGoodState == [set |-> FALSE, tree |-> 0, dist |-> Built(0, TRUE), service |-> TRUE,
                record |-> NullRecord]

\* The exec callback settles the promise; startDeployment resumes in its try
\* or its catch block and then runs finally.
ExecCallbackNoFinally ==
    /\ node.alive
    /\ pc = "none"
    /\ exitStatus # "none"
    /\ pending > 0
    /\ pending' = pending - 1
    /\ deploymentInProgress' = IF exitStatus = "ok" THEN FALSE ELSE deploymentInProgress
    /\ outcome' = exitStatus
    /\ ended' = ended + 1
    /\ exitStatus' = "none"
    /\ lastGood' = IF exitStatus = "ok" THEN GoodState ELSE lastGood
    /\ response' = NoResponse
    /\ node' = IF exitStatus = "ok" /\ node.auto THEN [node EXCEPT !.scheduled = TRUE] ELSE node
    /\ UNCHANGED <<webhookSecret, pc, env, fsVars, serviceRunning, remoteHead, budget, cli,
                   attempt, trigger, steps, rollbacks, failedStep, snapshot, restored, notified>>

ExecCallback ==
    /\ node.alive
    /\ pc = "none"
    /\ exitStatus # "none"
    /\ pending > 0
    /\ pending' = pending - 1
    /\ deploymentInProgress' = FALSE
    /\ outcome' = exitStatus
    /\ ended' = ended + 1
    /\ exitStatus' = "none"
    /\ lastGood' = IF exitStatus = "ok" THEN GoodState ELSE lastGood
    /\ response' = NoResponse
    /\ node' = IF exitStatus = "ok" /\ node.auto THEN [node EXCEPT !.scheduled = TRUE] ELSE node
    /\ UNCHANGED <<webhookSecret, pc, env, fsVars, serviceRunning, remoteHead, budget, cli,
                   attempt, trigger, steps, rollbacks, failedStep, snapshot, restored, notified>>

\* ------------------------------------------------------- deploy-update.sh
ExitUnnoticed(status) ==
    /\ pc' = "none"
    /\ exitStatus' = "none"

\* The shell ends: by exit, by set -e, or killed.
Exit(status) ==
    /\ pc' = "none"
    /\ exitStatus' = status

ctlOnly == <<webhookSecret, deploymentInProgress, pending, remoteHead,
               attempt, ended, trigger, outcome, budget, lastGood, cli, notified, node>>

\* exec() runs the command line; a missing or non-executable script makes
\* the shell exit 127/126 before any line of it runs.
Launch ==
    /\ pc = "spawned"
    /\ \/ pc' = "preflight" /\ UNCHANGED exitStatus
       \/ Exit("launch")
    /\ response' = NoResponse
    /\ UNCHANGED <<ctlOnly, env, fsVars, serviceRunning, steps, rollbacks, failedStep,
                   snapshot, restored>>

PreflightChecks == {"no package.json", "no git", "no npm", "no git-dir", "bad git status",
                    "no network"}

\* Lines 42-54 and 294-327: mkdir -p of the log and backup directories, the
\* package.json test, the ERR trap, the pre-deployment checks.  A failed check
\* runs "exit 1" inside its if: no command fails, so the trap stays silent.
PreFlightThroughTrap ==
    /\ pc = "preflight"
    /\ \E r \in PreflightChecks \cup {"ok"} :
         IF r = "ok" THEN pc' = "backup" /\ UNCHANGED <<exitStatus, failedStep>>
         ELSE pc' = "rollback" /\ failedStep' = r /\ UNCHANGED exitStatus
    /\ response' = NoResponse
    /\ UNCHANGED <<ctlOnly, env, fsVars, serviceRunning, steps, rollbacks, snapshot, restored>>

PreFlight ==
    /\ pc = "preflight"
    /\ \E r \in PreflightChecks \cup {"ok"} :
         IF r = "ok" THEN pc' = "backup" /\ UNCHANGED <<exitStatus, failedStep>>
         ELSE Exit("preflight") /\ failedStep' = r
    /\ response' = NoResponse
    /\ UNCHANGED <<ctlOnly, env, fsVars, serviceRunning, steps, rollbacks, snapshot, restored>>

CreateBackupWithoutSetE ==
    /\ pc = "backup"
    /\ steps' = Append(steps, "backup")
    /\ created' = created + 1
    /\ snapshot' = created + 1
    /\ \/ /\ backups' = backups \cup {Snapshot(created + 1, dist, nodeModules, manifest, TRUE)}
          /\ lastBackup' = created + 1
       \/ /\ backups' = backups \cup {Snapshot(created + 1, dist, Absent, NoManifest, FALSE)}
          /\ UNCHANGED lastBackup
    /\ pc' = "stop"
    /\ UNCHANGED <<exitStatus, failedStep>>
    /\ response' = NoResponse
    /\ UNCHANGED <<ctlOnly, env, deployInfo, tree, manifest, dist, nodeModules, serviceRunning,
                   rollbacks, restored>>

\* create_backup.  mkdir/cp/echo are simple commands of a function: when one
\* fails, set -e ends the shell there, with the directory made so far left
\* behind and .last-backup not yet written.
CreateBackup ==
    /\ pc = "backup"
    /\ steps' = Append(steps, "backup")
    /\ created' = created + 1
    /\ snapshot' = created + 1
    /\ \/ /\ backups' = backups \cup {Snapshot(created + 1, dist, nodeModules, manifest, TRUE)}
          /\ lastBackup' = created + 1
          /\ pc' = "stop"
          /\ UNCHANGED <<exitStatus, failedStep>>
       \/ /\ backups' = backups \cup {Snapshot(created + 1, dist, Absent, NoManifest, FALSE)}
          /\ UNCHANGED lastBackup
          /\ failedStep' = "backup"
          /\ Exit("fail")
    /\ response' = NoResponse
    /\ UNCHANGED <<ctlOnly, env, deployInfo, tree, manifest, dist, nodeModules, serviceRunning,
                   rollbacks, restored>>

StopServiceFatal ==
    /\ pc = "stop"
    /\ steps' = Append(steps, "stop")
    /\ \/ serviceRunning /\ serviceRunning' = FALSE /\ pc' = "git" /\ UNCHANGED failedStep
       \/ UNCHANGED serviceRunning /\ pc' = "rollback" /\ failedStep' = "stop"
    /\ response' = NoResponse
    /\ UNCHANGED <<ctlOnly, env, exitStatus, fsVars, rollbacks, snapshot, restored>>

\* stop_service: every branch only logs.
StopService ==
    /\ pc = "stop"
    /\ steps' = Append(steps, "stop")
    /\ \/ serviceRunning /\ serviceRunning' = FALSE
       \/ UNCHANGED serviceRunning
    /\ pc' = "git"
    /\ response' = NoResponse
    /\ UNCHANGED <<ctlOnly, env, exitStatus, fsVars, rollbacks, failedStep, snapshot, restored>>

GitCommands == {"stash", "fetch", "reset", "clean"}

\* git stash / fetch / reset --hard origin/main / clean -fd
GitUpdate ==
    /\ pc = "git"
    /\ steps' = Append(steps, "git")
    /\ \E r \in GitCommands \cup {"ok"} :
         /\ tree' = IF r \in {"ok", "clean"} THEN remoteHead ELSE tree
         /\ manifest' = IF r \in {"ok", "clean"} THEN CommitManifest(remoteHead) ELSE manifest
         /\ IF r = "ok" THEN pc' = "install" /\ UNCHANGED <<exitStatus, failedStep>>
            ELSE Exit("fail") /\ failedStep' = "git"
    /\ response' = NoResponse
    /\ UNCHANGED <<ctlOnly, env, backups, lastBackup, deployInfo, dist, nodeModules,
                   created, serviceRunning, rollbacks, snapshot, restored>>

\* command -v npm ... npm ci --production: "return 1" when npm is gone, set -e
\* when npm ci fails (npm ci has removed node_modules by then).
Install ==
    /\ pc = "install"
    /\ steps' = Append(steps, "install")
    /\ \/ /\ nodeModules' = tree
          /\ pc' = "build"
          /\ UNCHANGED <<exitStatus, failedStep>>
       \/ /\ UNCHANGED <<nodeModules, exitStatus>>
          /\ failedStep' = "install"
          /\ pc' = "rollback"
       \/ /\ nodeModules' = Absent
          /\ failedStep' = "install"
          /\ Exit("fail")
    /\ response' = NoResponse
    /\ UNCHANGED <<ctlOnly, env, backups, lastBackup, deployInfo, tree, manifest, dist, created,
                   serviceRunning, rollbacks, snapshot, restored>>

\* npm run build: exit 0 with or without a usable dist, or a non-zero exit.
Build ==
    /\ pc = "build"
    /\ steps' = Append(steps, "build")
    /\ \/ /\ \E ok \in BOOLEAN : dist' = Built(tree, ok)
          /\ pc' = "validate"
          /\ UNCHANGED <<exitStatus, failedStep>>
       \/ /\ UNCHANGED dist
          /\ failedStep' = "build"
          /\ Exit("fail")
    /\ response' = NoResponse
    /\ UNCHANGED <<ctlOnly, env, backups, lastBackup, deployInfo, tree, manifest, nodeModules,
                   created, serviceRunning, rollbacks, snapshot, restored>>

\* if ! validate_deployment; then return 1
Validate ==
    /\ pc = "validate"
    /\ steps' = Append(steps, "validate")
    /\ IF dist.valid THEN pc' = "record" /\ UNCHANGED failedStep
       ELSE pc' = "rollback" /\ failedStep' = "validate"
    /\ response' = NoResponse
    /\ UNCHANGED <<ctlOnly, env, exitStatus, fsVars, serviceRunning, rollbacks, snapshot, restored>>

\* cat > .deployment-info.json with "success": true
WriteRecord ==
    /\ pc = "record"
    /\ steps' = Append(steps, "record")
    /\ deployInfo' = InfoText(env, TRUE)
    /\ pc' = "start"
    /\ response' = NoResponse
    /\ UNCHANGED <<ctlOnly, env, exitStatus, backups, lastBackup, tree, manifest, dist, nodeModules,
                   created, serviceRunning, rollbacks, failedStep, snapshot, restored>>

\* if ! start_service; then return 1
StartService ==
    /\ pc = "start"
    /\ steps' = Append(steps, "start")
    /\ \/ serviceRunning' = TRUE /\ pc' = "settle" /\ UNCHANGED failedStep
       \/ UNCHANGED serviceRunning /\ pc' = "rollback" /\ failedStep' = "start"
    /\ response' = NoResponse
    /\ UNCHANGED <<ctlOnly, env, exitStatus, fsVars, rollbacks, snapshot, restored>>

SettleCheckNotLooked ==
    /\ pc = "settle"
    /\ \/ serviceRunning /\ pc' = "cleanup" /\ UNCHANGED <<serviceRunning, failedStep>>
       \/ serviceRunning' = FALSE /\ pc' = "cleanup" /\ UNCHANGED failedStep
    /\ response' = NoResponse
    /\ UNCHANGED <<ctlOnly, env, exitStatus, fsVars, steps, rollbacks, snapshot, restored>>

\* sleep 5; if check_service ... else return 1
SettleCheck ==
    /\ pc = "settle"
    /\ \/ serviceRunning /\ pc' = "cleanup" /\ UNCHANGED <<serviceRunning, failedStep>>
       \/ serviceRunning' = FALSE /\ pc' = "rollback" /\ failedStep' = "settle"
    /\ response' = NoResponse
    /\ UNCHANGED <<ctlOnly, env, exitStatus, fsVars, steps, rollbacks, snapshot, restored>>

\* cleanup_backups, then the end of the script; a cd or an rm that fails ends
\* the shell through set -e
CleanupBackups ==
    /\ pc = "cleanup"
    /\ steps' = Append(steps, "cleanup")
    /\ \/ /\ backups' = backups \ ToPrune(backups)
          /\ Exit("ok")
          /\ UNCHANGED failedStep
       \/ /\ ToPrune(backups) # {}
          /\ UNCHANGED backups
          /\ failedStep' = "cleanup"
          /\ Exit("fail")
    /\ response' = NoResponse
    /\ UNCHANGED <<ctlOnly, env, lastBackup, deployInfo, tree, manifest, dist, nodeModules, created,
                   serviceRunning, rollbacks, snapshot, restored>>

\* restore_backup: the directory .last-backup names, when both exist
RestoreSource == { b \in backups : b.id = lastBackup }

\* cp -r "$BACKUP_PATH"/* . writes the files the snapshot holds over those of
\* the working tree; only dist and node_modules were removed before, so a
\* file the snapshot lacks stays as it is.
Restored(m) ==
    [pkg  |-> IF m.pkg = Absent THEN manifest.pkg ELSE m.pkg,
     lock |-> IF m.lock = Absent THEN manifest.lock ELSE m.lock]

HandleErrorConsumesBackup ==
    /\ pc = "rollback"
    /\ rollbacks' = rollbacks + 1
    /\ IF RestoreSource # {}
       THEN \E b \in RestoreSource :
              /\ dist' = b.dist
              /\ nodeModules' = b.nodeModules
              /\ manifest' = Restored(b.manifest)
              /\ restored' = b.id
              /\ backups' = backups \ {b}
       ELSE UNCHANGED <<dist, nodeModules, manifest, restored, backups>>
    /\ \/ serviceRunning' = TRUE
       \/ UNCHANGED serviceRunning
    /\ deployInfo' = InfoText(env, FALSE)
    /\ Exit("fail")
    /\ response' = NoResponse
    /\ UNCHANGED <<ctlOnly, env, lastBackup, tree, created, steps, failedStep,
                   snapshot>>

\* handle_error (trap ... ERR): restore, try to start, record the failure, exit 1
HandleError ==
    /\ pc = "rollback"
    /\ rollbacks' = rollbacks + 1
    /\ IF RestoreSource # {}
       THEN \E b \in RestoreSource :
              /\ dist' = b.dist
              /\ nodeModules' = b.nodeModules
              /\ manifest' = Restored(b.manifest)
              /\ restored' = b.id
       ELSE UNCHANGED <<dist, nodeModules, manifest, restored>>
    /\ \/ serviceRunning' = TRUE
       \/ UNCHANGED serviceRunning
    /\ deployInfo' = InfoText(env, FALSE)
    /\ Exit("fail")
    /\ response' = NoResponse
    /\ UNCHANGED <<ctlOnly, env, backups, lastBackup, tree, created, steps, failedStep,
                   snapshot>>

\* exec's timeout of 300000 ms: the shell is killed where it stands.
Timeout ==
    /\ node.alive
    /\ pc # "none"
    /\ Exit("timeout")
    /\ response' = NoResponse
    /\ UNCHANGED <<ctlOnly, env, fsVars, serviceRunning, steps, rollbacks, failedStep,
                   snapshot, restored>>

\* ------------------------------------- deploy-update.sh from a terminal
\* "./deploy-update.sh" typed by an operator: the same script in a second
\* shell, on the same directories and the same service.  Nothing in the script
\* looks for another run (no lock file, no pid file) and nothing tells the
\* controller.  Its steps are followed in four groups.
cliFrame == <<ctlVars, procVars, remoteHead, histVars, notified, node>>

CliAt(p) == [cli EXCEPT !.pc = p]

\* the pre-deployment checks pass and deploy is called
CliStart ==
    /\ cli.pc = "none"
    /\ cli.runs < MaxCli
    /\ cli' = [pc |-> "backup", runs |-> cli.runs + 1]
    /\ response' = NoResponse
    /\ UNCHANGED <<cliFrame, fsVars, serviceRunning>>

\* create_backup
CliBackup ==
    /\ cli.pc = "backup"
    /\ created' = created + 1
    /\ backups' = backups \cup {Snapshot(created + 1, dist, nodeModules, manifest, TRUE)}
    /\ lastBackup' = created + 1
    /\ cli' = CliAt("stop")
    /\ response' = NoResponse
    /\ UNCHANGED <<cliFrame, deployInfo, tree, manifest, dist, nodeModules, serviceRunning>>

\* stop_service
CliStop ==
    /\ cli.pc = "stop"
    /\ serviceRunning' = FALSE
    /\ cli' = CliAt("update")
    /\ response' = NoResponse
    /\ UNCHANGED <<cliFrame, fsVars>>

\* git stash/fetch/reset/clean, npm ci, npm run build; or git fetch fails and
\* set -e ends the shell
CliUpdate ==
    /\ cli.pc = "update"
    /\ \/ /\ tree' = remoteHead
          /\ manifest' = CommitManifest(remoteHead)
          /\ nodeModules' = remoteHead
          /\ dist' = Built(remoteHead, TRUE)
          /\ cli' = CliAt("finish")
       \/ /\ UNCHANGED <<tree, manifest, nodeModules, dist>>
          /\ cli' = CliAt("none")
    /\ response' = NoResponse
    /\ UNCHANGED <<cliFrame, backups, lastBackup, deployInfo, created, serviceRunning>>

\* validate_deployment, then the success record, start_service and
\* cleanup_backups, or handle_error.  COMMIT_ID, COMMIT_MESSAGE and AUTHOR are
\* not set in a terminal.
CliFinish ==
    /\ cli.pc = "finish"
    /\ IF dist.valid
       THEN /\ deployInfo' = InfoText(NoEnv, TRUE)
            /\ serviceRunning' = TRUE
            /\ backups' = backups \ ToPrune(backups)
            /\ UNCHANGED <<dist, nodeModules, manifest>>
       ELSE /\ IF RestoreSource # {}
               THEN \E b \in RestoreSource :
                      /\ dist' = b.dist
                      /\ nodeModules' = b.nodeModules
                      /\ manifest' = Restored(b.manifest)
               ELSE UNCHANGED <<dist, nodeModules, manifest>>
            /\ serviceRunning' = TRUE
            /\ deployInfo' = InfoText(NoEnv, FALSE)
            /\ UNCHANGED backups
    /\ cli' = CliAt("none")
    /\ response' = NoResponse
    /\ UNCHANGED <<cliFrame, lastBackup, tree, created>>

Cli ==
    \/ CliStart
    \/ CliBackup
    \/ CliStop
    \/ CliUpdate
    \/ CliFinish

\* a push reaches origin/main
Push ==
    /\ remoteHead < MaxPush
    /\ remoteHead' = remoteHead + 1
    /\ response' = NoResponse
    /\ UNCHANGED <<ctlVars, procVars, fsVars, serviceRunning, histVars, cli, notified, node>>

\* ------------------------------------------------------------ behaviours
\* BACKUP_DIR as earlier controller runs left it: empty, one short of the
\* retention count, or above it (failed attempts do not prune).
PriorCounts == {0, KeepBackups - 1, MaxPrior}

PriorSnapshots(n) == { Snapshot(i, Built(0, TRUE), 0, CommitManifest(0), TRUE) : i \in 1..n }

NoCli == [pc |-> "none", runs |-> 0]

NodeProcess(auto) == [auto |-> auto, scheduled |-> FALSE, alive |-> TRUE]

\* locks: what package-lock.json of the checkout may be; autos: AUTO_RESTART
InitDevice(secrets, counts, runs, locks, autos) ==
    /\ webhookSecret \in secrets
    /\ deploymentInProgress = FALSE
    /\ pending = 0
    /\ response = NoResponse
    /\ pc = "none"
    /\ env = NoEnv
    /\ exitStatus = "none"
    /\ \E n \in counts :
         /\ backups = PriorSnapshots(n)
         /\ lastBackup = n
         /\ created = n
    /\ deployInfo = NoFile
    /\ tree = 0
    /\ dist = Built(0, TRUE)
    /\ nodeModules = 0
    /\ serviceRunning = TRUE
    /\ remoteHead = 0
    /\ attempt = 0
    /\ ended = 0
    /\ trigger = ManualTrigger
    /\ steps = <<>>
    /\ rollbacks = 0
    /\ failedStep = "none"
    /\ snapshot = 0
    /\ restored = 0
    /\ outcome = "none"
    /\ budget = runs
    /\ lastGood = NoGoodState
    /\ cli = NoCli
    /\ \E l \in locks : manifest = [pkg |-> 0, lock |-> l]
    /\ notified = 0
    /\ \E a \in autos : node = NodeProcess(a)

\* package-lock.json committed, AUTO_RESTART not set
InitWith(secrets, counts, runs) == InitDevice(secrets, counts, runs, {0}, {FALSE})

\* A freshly installed device: the controller has just been constructed.
Init == InitWith(Secrets, {0}, MaxAttempts)

\* A device that has deployed before: BACKUP_DIR holds earlier snapshots.
InitRetention == InitWith({<<>>}, PriorCounts, MaxAttempts)

\* requests from anywhere; GitHub's own deliveries are counted by Deliver
Request ==
    /\ \/ \E req \in WebhookRequests : HandleWebhook(req)
       \/ \E req \in ManualRequests : ManualDeploy(req)
       \/ GetDeploymentStatus
       \/ GetDeploymentLogs
    /\ UNCHANGED notified

Script ==
    \/ Launch
    \/ PreFlight
    \/ CreateBackup
    \/ StopService
    \/ GitUpdate
    \/ Install
    \/ Build
    \/ Validate
    \/ WriteRecord
    \/ StartService
    \/ SettleCheck
    \/ CleanupBackups
    \/ HandleError
    \/ Timeout

Next ==
    \/ Request
    \/ Script
    \/ ExecCallback
    \/ Push

Spec == Init /\ [][Next]_vars

\* Deployments started from the manual endpoint only, on a used device.
NextRetention ==
    \/ \E req \in ManualRequests : ManualDeploy(req) /\ UNCHANGED notified
    \/ Script
    \/ ExecCallback

SpecRetention == InitRetention /\ [][NextRetention]_vars

\* Deployments repeated on one device, no secret configured: the manual
\* endpoint and unsigned pushes to refs/heads/main.
InitRepeat == InitWith({<<>>}, {0}, MaxRepeat)

RepeatRequests ==
    { req \in WebhookRequests :
        req.sig = NoHeader /\ ~req.raw.ws /\ JsonParse(req.raw).ref = MainRef }

NextRepeat ==
    \/ \E req \in RepeatRequests : HandleWebhook(req) /\ UNCHANGED notified
    \/ \E req \in ManualRequests : ManualDeploy(req) /\ UNCHANGED notified
    \/ Script
    \/ ExecCallback
    \/ Push

SpecRepeat == InitRepeat /\ [][NextRepeat]_vars

\* An operator at a terminal next to the controller.
InitCli == InitWith({<<>>}, {0}, MaxAttempts)

NextCli ==
    \/ \E req \in RepeatRequests : HandleWebhook(req) /\ UNCHANGED notified
    \/ \E req \in ManualRequests : ManualDeploy(req) /\ UNCHANGED notified
    \/ Script
    \/ ExecCallback
    \/ Cli
    \/ Push

SpecCli == InitCli /\ [][NextCli]_vars

\* A checkout with or without its package-lock.json (the file is copied into
\* the snapshot "2>/dev/null || true").
InitRestore == InitDevice({<<>>}, {0}, MaxAttempts, {0, Absent}, {FALSE})

NextRestore ==
    \/ \E req \in RepeatRequests : HandleWebhook(req) /\ UNCHANGED notified
    \/ \E req \in ManualRequests : ManualDeploy(req) /\ UNCHANGED notified
    \/ Script
    \/ ExecCallback
    \/ Push

SpecRestore == InitRestore /\ [][NextRestore]_vars

\* The timer set after a successful attempt fires: process.exit(0). The
\* controller's memory is left as it was at that instant; a process that has
\* exited handles no request, callback or timer.
ProcessExit ==
    /\ node.alive
    /\ node.scheduled
    /\ node' = [node EXCEPT !.alive = FALSE, !.scheduled = FALSE]
    /\ response' = NoResponse
    /\ UNCHANGED <<ctlVars, pc, env, exitStatus, fsVars, serviceRunning, remoteHead,
                   histVars, cli, notified>>

\* A device started with AUTO_RESTART=true.
InitRestart == InitDevice({<<>>}, {0}, MaxRepeat, {0}, {TRUE})

NextRestart ==
    \/ \E req \in RepeatRequests : HandleWebhook(req) /\ UNCHANGED notified
    \/ \E req \in ManualRequests : ManualDeploy(req) /\ UNCHANGED notified
    \/ Script
    \/ ExecCallback
    \/ Push
    \/ ProcessExit

SpecRestart == InitRestart /\ [][NextRestart]_vars

\* GitHub's webhook for the n-th push: the compact payload, signed with the
\* shared secret.
GitHubRequest(n) ==
    LET raw == [obj |-> [ref |-> MainRef, head_commit |-> CommitOf(n)], ws |-> FALSE]
    IN  [raw |-> raw, sig |-> ExpectedSignature(Secret, raw)]

\* GitHub delivers the webhooks of the pushes one by one, in their order,
\* some time after each push, and does not send one again by itself.
Deliver ==
    /\ notified < remoteHead
    /\ notified' = notified + 1
    /\ HandleWebhook(GitHubRequest(notified + 1))

\* A device whose only webhooks are GitHub's, next to the manual endpoint.
InitNotify == InitWith({Secret}, {0}, MaxAttempts)

NextNotify ==
    \/ Deliver
    \/ \E req \in ManualRequests : ManualDeploy(req) /\ UNCHANGED notified
    \/ Script
    \/ ExecCallback
    \/ Push

SpecNotify == InitNotify /\ [][NextNotify]_vars

\* Repeated deployments in which every command of the script exits or is
\* cut off by the exec timeout, and the event loop gets to run the callback.
SpecLive == SpecRepeat /\ WF_vars(Script) /\ WF_vars(ExecCallback)

\* ================================================================ claims
Ignored == Response(200, "Ignored - not main branch")

\* the payload the handler hands to verifySignature
Payload(req) == JsonStringify(JsonParse(req.raw))

Accepted(req) == VerifySignature(webhookSecret, Payload(req), req.sig) = "ok"

PipelineSteps == <<"backup", "stop", "git", "install", "build", "validate", "record",
                   "start", "cleanup">>

FatalSteps == {"backup", "git", "install", "build", "validate", "start", "settle"}

\* C1: over any interleaving of webhook and manual requests at most one
\* deployment attempt is running: no request passes the in-progress check
\* while an earlier attempt has not ended.
C1_AtMostOneAttempt == pending <= 1 /\ (pc # "none" => pending = 1)

C1_Witness == response = Busy /\ pending = 1 /\ pc = "build"

\* C2: a manual trigger, or an accepted webhook push to refs/heads/main, that
\* arrives while an attempt is running is answered 429 "Deployment already in
\* progress" and changes nothing of the running attempt, its files or its record.
C2_BusyRejected ==
    [][ deploymentInProgress =>
          /\ \A req \in ManualRequests :
               ManualDeploy(req) => (response' = Busy /\ UNCHANGED deployState)
          /\ \A req \in WebhookRequests :
               (HandleWebhook(req) /\ Accepted(req) /\ JsonParse(req.raw).ref = MainRef)
                   => (response' = Busy /\ UNCHANGED deployState) ]_vars

C2_Witness == response = Busy /\ deploymentInProgress /\ pc = "install" /\ webhookSecret = Secret

\* C3: once an attempt has ended, whatever its outcome, the in-progress flag
\* is false; the flag is never true with no attempt running.
C3_FlagCleared ==
    /\ pending = 0 => ~deploymentInProgress
    /\ outcome \in {"ok", "fail", "preflight", "timeout", "launch"} => ~deploymentInProgress

C3_Witness == outcome = "timeout" /\ pending = 0 /\ ~deploymentInProgress

C5_OtherBranchIgnored ==
    [][ \A req \in WebhookRequests :
          (HandleWebhook(req) /\ Accepted(req) /\ JsonParse(req.raw).ref # MainRef)
              => (response' = Ignored /\ UNCHANGED deployState) ]_vars

C5_Witness == response = Ignored /\ webhookSecret = Secret /\ backups = {} /\ attempt = 0

\* the record as its readers get it
Record == GetLastDeploymentInfo(deployInfo)

FailureRecorded ==
    /\ Record.parsed
    /\ ~Record.success
    /\ Record.error # <<>>

\* C6: whenever a pipeline step other than the service stop fails, the
\* rollback handler runs exactly once in that attempt, records the failure and
\* the script ends with a non-zero exit.
C6_RollbackOnEveryFailure ==
    (pc = "none" /\ failedStep \in FatalSteps /\ exitStatus # "timeout" /\ outcome # "timeout")
        => (rollbacks = 1 /\ deployInfo.exists /\ ~deployInfo.success
            /\ exitStatus # "ok" /\ outcome # "ok")

\* C7: when build validation fails, the rollback restores the snapshot made
\* at the start of the same attempt and leaves a DeploymentRecord with
\* success=false and a non-empty error string.
C7_ValidationFailureRolledBack ==
    (failedStep = "validate" /\ rollbacks = 1)
        => (restored = snapshot /\ snapshot # 0 /\ FailureRecorded)

\* The restore half of C7 on its own: the handler restores the snapshot the
\* attempt made, and the files are those of that snapshot.
ValidationRestoresOwnSnapshot ==
    (failedStep = "validate" /\ rollbacks = 1 /\ pc = "none")
        => /\ restored = snapshot
           /\ snapshot # 0
           /\ \E b \in backups : b.id = snapshot /\ b.complete /\ dist = b.dist
                                 /\ nodeModules = b.nodeModules

\* C8: after a successful deployment at most 5 snapshots exist; once more
\* than 5 have been created exactly the 5 newest remain, the snapshot of the
\* attempt that just succeeded among them.
AfterSuccess == exitStatus = "ok" \/ outcome = "ok"

C8_Retention ==
    AfterSuccess =>
        /\ Cardinality(backups) <= KeepBackups
        /\ created > KeepBackups =>
               { b.id : b \in backups } = (created - KeepBackups + 1)..created
        /\ snapshot \in { b.id : b \in backups }

C8_Witness ==
    /\ outcome = "ok"
    /\ created > KeepBackups + 1
    /\ Cardinality(backups) = KeepBackups

\* C9: a failed pre-flight check ends the attempt before anything is changed:
\* no snapshot, no service stop, working tree, build output and record as
\* they were, no rollback.
C9_PreflightAbortsClean ==
    [][ /\ pc \in {"spawned", "preflight"} => UNCHANGED <<fsVars, serviceRunning>>
        /\ failedStep' \in PreflightChecks =>
               (pc' = "none" /\ exitStatus' \in {"preflight", "none"}
                /\ rollbacks' = 0 /\ steps' = <<>> /\ snapshot' = 0) ]_vars

C9_Witness ==
    /\ failedStep = "no network"
    /\ outcome = "preflight"
    /\ deployInfo = NoFile
    /\ backups = {}
    /\ serviceRunning

\* C10: an attempt in which every step succeeds runs the steps once each and
\* ends with a readable DeploymentRecord with success=true and the commit
\* metadata of its trigger, the service running and the flag false.
TriggerMeta ==
    IF trigger.kind = "webhook"
    THEN [commit |-> trigger.head_commit.id, message |-> trigger.head_commit.message,
          author |-> trigger.head_commit.author]
    ELSE [commit |-> <<"manual">>, message |-> <<"Manual deployment">>,
          author |-> <<"Manual">>]

C10_SuccessRecorded ==
    outcome = "ok" =>
        /\ steps = PipelineSteps
        /\ Record.parsed
        /\ Record.success
        /\ Record.commit = TriggerMeta.commit
        /\ Record.message = TriggerMeta.message
        /\ Record.author = TriggerMeta.author
        /\ serviceRunning
        /\ ~deploymentInProgress

Started == Response(200, "Deployment started")

\* C11: with no secret configured the verifier accepts every webhook request,
\* whatever its signature header, so every push to refs/heads/main received
\* while no attempt is running starts a deployment.
C11_NoSecretEveryPushDeploys ==
    [][ \A req \in WebhookRequests :
          (HandleWebhook(req) /\ webhookSecret = <<>> /\ ~deploymentInProgress
             /\ JsonParse(req.raw).ref = MainRef)
              => (Accepted(req) /\ response' = Started /\ deploymentInProgress'
                  /\ pc' = "spawned" /\ attempt' = attempt + 1) ]_vars

\* The part of C11 that is about the verifier: no header and no body makes it
\* reject or throw when the secret is empty, and a push that carries its
\* head_commit starts a deployment.
NoSecretAcceptsAll ==
    [][ \A req \in WebhookRequests :
          (HandleWebhook(req) /\ webhookSecret = <<>>)
              => /\ Accepted(req)
                 /\ response'.status \notin {401}
                 /\ (~deploymentInProgress /\ JsonParse(req.raw).ref = MainRef
                       /\ JsonParse(req.raw).head_commit # NoCommit)
                        => (response' = Started /\ pc' = "spawned") ]_vars

\* C12: a request to the manual trigger endpoint starts a deployment only
\* when its caller is authenticated: without a valid bearer token the request
\* never sets the in-progress flag and never runs the deployment script.
C12_ManualNeedsToken ==
    [][ \A req \in ManualRequests :
          (ManualDeploy(req) /\ ~AuthenticateToken(req))
              => (UNCHANGED <<deploymentInProgress, pending, pc, attempt>>) ]_vars

Unauthorized == Response(401, "Invalid signature")

\* C13: a signature the holder of the secret computed as HMAC-SHA256 over the
\* raw bytes of the request body is accepted by the verifier, for every body:
\* the verifier recomputes the digest over the same bytes the sender signed.
C13_RawBodySignatureAccepted ==
    [][ \A req \in WebhookRequests :
          (HandleWebhook(req) /\ webhookSecret # <<>>
             /\ req.sig = ExpectedSignature(webhookSecret, req.raw))
              => (Accepted(req) /\ response' # Unauthorized) ]_vars

\* C14: with a secret configured the verifier yields a boolean for every
\* header: an absent header, or one whose length differs from the expected
\* digest string, is answered 401 "Invalid signature", never an internal error.
C14_MalformedHeaderIs401 ==
    [][ \A req \in WebhookRequests :
          (HandleWebhook(req) /\ webhookSecret # <<>>
             /\ (req.sig = NoHeader
                 \/ Len(req.sig) # Len(ExpectedSignature(webhookSecret, Payload(req)))))
              => (VerifySignature(webhookSecret, Payload(req), req.sig) \in {"ok", "reject"}
                  /\ response' = Unauthorized) ]_vars

TimedOut == exitStatus = "timeout" \/ outcome = "timeout"

\* C15: when the script exceeds the 5-minute timeout of exec, the attempt is
\* handled as a failure of the step in progress: it ends through the rollback
\* path (backup of the attempt restored, failure recorded by one run of the
\* handler) and no step of the pipeline runs after the timeout.
C15_TimeoutRollsBack ==
    (TimedOut /\ steps # <<>>)
        => /\ pc = "none"
           /\ rollbacks = 1
           /\ deployInfo.exists /\ ~deployInfo.success
           /\ (lastBackup = snapshot => restored = snapshot)

\* The part of C15 that holds: the script is gone after the timeout, so none
\* of its steps runs later.
NoStepAfterTimeout ==
    [][ TimedOut => (steps' = steps \/ attempt' # attempt) ]_vars

AttemptEnded == attempt > 0 /\ outcome \in {"ok", "fail", "preflight", "timeout", "launch"}

\* C16: the persisted DeploymentRecord is overwritten on every attempt: once
\* an attempt has ended, the record the status endpoint reads describes that
\* attempt (its commit metadata and its outcome), never an earlier attempt.
C16_RecordDescribesLastAttempt ==
    AttemptEnded =>
        /\ Record.parsed
        /\ Record.commit = ScriptEnv(trigger).COMMIT_ID
        /\ Record.message = ScriptEnv(trigger).COMMIT_MESSAGE
        /\ Record.author = ScriptEnv(trigger).AUTHOR
        /\ Record.success = (outcome = "ok")

\* A state C16 excludes: the second attempt has failed and the record still
\* tells of the success of the first.
StaleRecord ==
    /\ ended = 2
    /\ outcome = "fail"
    /\ Record.parsed
    /\ Record.success
    /\ Record.commit # ScriptEnv(trigger).COMMIT_ID

SecondSuccess == pc = "none" /\ exitStatus = "ok" /\ lastGood.set /\ tree = lastGood.tree

\* C18: the update cycle is idempotent: a second successful deployment of an
\* unchanged remote head leaves the working tree, the build output, the
\* running state of the service and the success value of the DeploymentRecord
\* as the first successful deployment left them.
C18_SecondDeployChangesNothing ==
    SecondSuccess =>
        /\ tree = lastGood.tree
        /\ dist = lastGood.dist
        /\ serviceRunning = lastGood.service
        /\ Record.parsed = lastGood.record.parsed
        /\ Record.parsed => Record.success = lastGood.record.success

\* C18 for the files themselves: tree, build output, service, and the
\* "success" line the script writes, readable as JSON or not.
SecondDeploySameFiles ==
    SecondSuccess =>
        /\ dist = lastGood.dist
        /\ dist = Built(tree, TRUE)
        /\ serviceRunning = lastGood.service
        /\ serviceRunning
        /\ deployInfo.exists /\ deployInfo.success

\* everything but the response just sent
allButResponse == <<webhookSecret, deployState, serviceRunning, remoteHead, budget, cli,
                    notified, node>>

\* C17: no request aborts or alters a running attempt; status and logs
\* requests never change the flag, the record, the backups or the position of
\* the pipeline.  A status request returns deploymentInProgress equal to the
\* flag, lastDeployment equal to the persisted record (null when none can be
\* read) and webhookConfigured true exactly when the secret is non-empty.
C17_ObserveOnly ==
    [][ /\ (Request /\ deploymentInProgress) => UNCHANGED allButResponse
        /\ (GetDeploymentStatus \/ GetDeploymentLogs) => UNCHANGED allButResponse
        /\ GetDeploymentStatus =>
             /\ response'.deploymentInProgress = deploymentInProgress
             /\ response'.lastDeployment = Record
             /\ response'.webhookConfigured = (webhookSecret # <<>>)
             /\ (webhookSecret = <<>>) => ~response'.webhookConfigured ]_vars

C17_Witness ==
    /\ response = StatusResponse
    /\ deploymentInProgress
    /\ pc = "build"
    /\ ~response.lastDeployment.parsed
    /\ ~response.webhookConfigured

CliRunning == cli.pc # "none"

ControllerRunInPipeline == pc \notin {"none", "spawned", "preflight"}

ManualStarted == Response(200, "Manual deployment started")

\* C19: the mutual exclusion covers every kind of trigger: a run of the
\* script started from the command line never executes pipeline steps at the
\* same time as a run started by the controller, and the controller accepts
\* no trigger while such a run is executing.
C19_CliRunExcluded ==
    CliRunning =>
        /\ ~ControllerRunInPipeline
        /\ response \notin {Started, ManualStarted}

\* the step the script is about to begin at each position
StepAt ==
    [p \in {"backup", "stop", "git", "install", "build", "validate", "record", "start",
            "cleanup"} |->
        CHOOSE i \in 1..Len(PipelineSteps) : PipelineSteps[i] = p]

\* the snapshot of the current attempt is in BACKUP_DIR, whole
OwnBackupExists == snapshot # 0 /\ \E b \in backups : b.id = snapshot /\ b.complete

\* C20: within one attempt the steps run one after another in the order
\* backup, stop, git, install, build, validate, record, start (with its settle
\* check), cleanup: a step begins only when the one before it has finished,
\* after the first fatal failure no later step runs, and the working tree is
\* never modified and the service never stopped before the backup of the
\* attempt exists.
C20_StrictSequence ==
    [][ /\ steps' = SubSeq(PipelineSteps, 1, Len(steps'))
        /\ pc' \in DOMAIN StepAt => Len(steps') = StepAt[pc'] - 1
        /\ pc' = "settle" => steps'[Len(steps')] = "start"
        /\ attempt' = attempt => (steps' = steps \/ steps' = Append(steps, PipelineSteps[Len(steps) + 1]))
        /\ (failedStep # "none" /\ attempt' = attempt) => (steps' = steps /\ failedStep' = failedStep)
        /\ (tree' # tree \/ StopService) => OwnBackupExists
        /\ Len(steps') >= 2 => OwnBackupExists' ]_vars

C20_Witness ==
    /\ failedStep = "build"
    /\ pc = "none"
    /\ steps = SubSeq(PipelineSteps, 1, 5)
    /\ tree = 1
    /\ ~serviceRunning
    /\ OwnBackupExists

\* C21: an attempt ends Succeeded only if the service start command succeeded
\* and the service was found running at the re-check after the settle period;
\* a failed start, or a service not running at the re-check, is fatal and
\* takes the rollback path; backups are pruned only after the re-check passed.
C21_SuccessNeedsRunningService ==
    [][ /\ (exitStatus' = "ok" \/ outcome' = "ok") =>
               (serviceRunning' /\ steps' = PipelineSteps /\ failedStep' = "none")
        /\ (StartService /\ ~serviceRunning') => (pc' = "rollback" /\ failedStep' = "start")
        /\ (SettleCheck /\ ~serviceRunning') => (pc' = "rollback" /\ failedStep' = "settle")
        /\ (pc # "cleanup" /\ pc' = "cleanup") => (SettleCheck /\ serviceRunning /\ serviceRunning')
        /\ (\E b \in backups : b \notin backups') => (pc = "cleanup" /\ serviceRunning)
        /\ (failedStep \in {"start", "settle"} /\ pc = "rollback" /\ pc' = "none")
               => (exitStatus' = "timeout" \/ rollbacks' = 1) ]_vars

C21_Witness ==
    /\ failedStep = "settle"
    /\ rollbacks = 1
    /\ pc = "none"
    /\ backups # {}
    /\ deployInfo.exists /\ ~deployInfo.success

\* C22: a failure to stop the service, or a service found absent or not
\* running, never aborts the attempt and never triggers the rollback: the
\* pipeline goes on to the version-control step.  The stop is the only step
\* whose failure is tolerated: the failure of any other step ends the run.
C22_StopFailureTolerated ==
    [][ /\ StopService =>
               (pc' = "git" /\ failedStep' = "none" /\ rollbacks' = 0 /\ exitStatus' = "none")
        /\ (failedStep = "none" /\ failedStep' # "none") =>
               (failedStep' # "stop" /\ pc' \in {"rollback", "none"})
        /\ (pc \in DOMAIN StepAt /\ pc # "stop" /\ attempt' = attempt /\ pc' \in DOMAIN StepAt)
               => failedStep' = "none" ]_vars

C22_Witness ==
    /\ steps = <<"backup", "stop">>
    /\ pc = "git"
    /\ serviceRunning
    /\ failedStep = "none"
    /\ attempt = 2

\* C23: an accepted push to a branch other than main is answered "Ignored -
\* not main branch" in every state, also while a deployment is in progress
\* (never with the busy response): the handler checks the signature first,
\* then the branch, then the flag.
C23_CheckOrder ==
    [][ \A req \in WebhookRequests :
          HandleWebhook(req) =>
            /\ ~Accepted(req) => response'.status \in {401, 500}
            /\ (Accepted(req) /\ JsonParse(req.raw).ref # MainRef) => response' = Ignored
            /\ (Accepted(req) /\ JsonParse(req.raw).ref = MainRef /\ deploymentInProgress)
                   => response' = Busy
            /\ response' = Busy => (Accepted(req) /\ JsonParse(req.raw).ref = MainRef) ]_vars

C23_Witness ==
    /\ response = Ignored
    /\ deploymentInProgress
    /\ pc = "build"
    /\ webhookSecret = Secret

Idle == ~deploymentInProgress /\ pending = 0 /\ pc = "none"

\* C24: every attempt that starts eventually ends: when each command of the
\* script exits or is cut off by the timeout, the attempt reaches Succeeded or
\* Failed, the in-progress flag returns to false, and a trigger that arrives
\* afterwards is accepted again.
C24_AttemptEnds ==
    /\ deploymentInProgress ~> (Idle /\ AttemptEnded)
    /\ [][ \A req \in ManualRequests :
             (Idle /\ ManualDeploy(req)) => (response' = ManualStarted /\ pc' = "spawned") ]_vars

C24_Witness ==
    /\ ended = 1
    /\ attempt = 2
    /\ response = ManualStarted
    /\ deploymentInProgress

Deleted == { b \in backups : b \notin backups' }

C25_RollbackWitness ==
    /\ rollbacks = 1
    /\ restored = MaxPrior + 1
    /\ Cardinality(backups) = MaxPrior + 1

RolledBackToOwnSnapshot == rollbacks = 1 /\ snapshot # 0 /\ restored = snapshot

\* C26: when a rollback follows a backup created in the same attempt, dist,
\* node_modules and the package manifest files are after the restore exactly
\* what they were when the attempt started (what create_backup found).
C26_BackupRestoreRoundTrip ==
    RolledBackToOwnSnapshot =>
        \E b \in backups :
            /\ b.id = snapshot
            /\ dist = b.dist
            /\ nodeModules = b.nodeModules
            /\ manifest = b.manifest

\* C26 without package-lock.json: dist, node_modules and package.json are
\* those of the snapshot, and so is the lock file when the snapshot has one.
RoundTripOfCopiedFiles ==
    RolledBackToOwnSnapshot =>
        \E b \in backups :
            /\ b.id = snapshot
            /\ dist = b.dist
            /\ nodeModules = b.nodeModules
            /\ manifest.pkg = b.manifest.pkg
            /\ b.manifest.lock # Absent => manifest.lock = b.manifest.lock

\* what GET /status shows
StatusSaysSucceeded == ~deploymentInProgress /\ attempt > 0 /\ Record.parsed /\ Record.success

\* C27: when the status endpoint reports deploymentInProgress=false and a
\* lastDeployment with success=true, the most recent attempt ended Succeeded
\* with the service found running: a record with success=true is never the
\* last record of an attempt that failed, timed out or was rolled back.
C27_SuccessRecordMeansSuccess ==
    StatusSaysSucceeded => (outcome = "ok" /\ serviceRunning /\ rollbacks = 0)

\* What the handler does guarantee: once it has run, the record says failure.
RollbackOverwritesSuccess ==
    (rollbacks = 1 /\ pc = "none") => (deployInfo.exists /\ ~deployInfo.success)

\* the push a webhook trigger announced
Announced(trig) == IF trig.head_commit = CommitOf(0) THEN 0 ELSE 1

\* C28: when an attempt ends Succeeded, the commit id in its DeploymentRecord
\* is that of the commit checked out and built in the attempt (the head of
\* origin/main at the fetch), also when further pushes reach the remote
\* between the trigger and the fetch.
C28_RecordNamesDeployedCommit ==
    (outcome = "ok" /\ trigger.kind = "webhook" /\ Announced(trigger) <= tree)
        => (deployInfo.exists /\ deployInfo.commit = CommitOf(tree).id)

\* The id in the record is the one the trigger carried, whatever was fetched.
RecordNamesAnnouncedCommit ==
    (outcome = "ok" /\ trigger.kind = "webhook")
        => (deployInfo.exists /\ deployInfo.commit = trigger.head_commit.id)

\* every push has been announced, the one attempt made has succeeded and
\* nothing is running
Quiescent ==
    /\ Idle
    /\ notified = remoteHead
    /\ attempt = 1 /\ ended = 1 /\ outcome = "ok"

\* C29: once pushes to main have stopped and every attempt has ended, all of
\* them successfully, the commit checked out and built on the device is the
\* remote head of main: a push whose webhook was answered busy is not left
\* undeployed.
C29_RemoteHeadDeployed ==
    Quiescent => (tree = remoteHead /\ dist = Built(remoteHead, TRUE))

\* C30: with AUTO_RESTART enabled the controller process exits only in a
\* state where no deployment is in progress: a trigger accepted in the second
\* between a successful attempt and the exit is not cut off by it.
C30_ExitOnlyWhenIdle ==
    ~node.alive => (~deploymentInProgress /\ pending = 0)

====
